---- MODULE Spec2Model ----
(***************************************************************************)
(* The upsc sensor of sensor_exporter (sensor_upsc/main.go): NewSensor,    *)
(* which builds a Sensor from an options string and probes the daemon, and *)
(* Sensor.Scrape, which asks upsd for the variables of one UPS over a      *)
(* fresh TCP connection and turns the answer into exposition text.         *)
(*                                                                         *)
(* Strings are sequences of characters (one-character TLA+ strings; the    *)
(* literal parts of a format are kept as one element each).  A response    *)
(* line is a record of its parts.  A float64 reading is an integer number  *)
(* of hundredths.                                                          *)
(***************************************************************************)
EXTENDS Integers, Sequences, FiniteSets, TLC

\* ------------------------------------------------------------- bounds

\* Complete lines the daemon delivers on one connection.
MaxLines == 4

\* The same, when two instances run side by side.
MaxConcLines == 3

\* Scrapes start only while IncidentCount is below this.
MaxIncidents == 2

\* Options strings are enumerated up to this length.
MaxOptsLen == 5

\* ------------------------------------------------------------- strings

EmptyString == <<>>

DigitChars == <<"0", "1", "2", "3", "4", "5", "6", "7", "8", "9">>

IsDigit(c) == \E k \in 1..Len(DigitChars) : DigitChars[k] = c

DigitVal(c) == (CHOOSE k \in 1..Len(DigitChars) : DigitChars[k] = c) - 1

RECURSIVE DigitsValue(_)
DigitsValue(ds) ==
    IF ds = <<>> THEN 0
    ELSE DigitsValue(SubSeq(ds, 1, Len(ds) - 1)) * 10 + DigitVal(ds[Len(ds)])

RECURSIVE NatToChars(_)
NatToChars(n) ==
    IF n < 10 THEN <<DigitChars[n + 1]>>
    ELSE NatToChars(n \div 10) \o <<DigitChars[(n % 10) + 1]>>

\* strings.Split(str, sep) for a one-character separator.
RECURSIVE Split(_, _)
Split(str, sep) ==
    IF \A k \in 1..Len(str) : str[k] # sep THEN <<str>>
    ELSE LET k == CHOOSE k \in 1..Len(str) :
                      str[k] = sep /\ \A j \in 1..(k - 1) : str[j] # sep
         IN  <<SubSeq(str, 1, k - 1)>> \o Split(SubSeq(str, k + 1, Len(str)), sep)

\* strconv.ParseFloat(raw, 64) on decimal literals: an optional sign, digits,
\* an optional point and digits, at least one digit.  val is in hundredths
\* (digits after the second decimal are dropped; the inputs have none).
ParseFloat(raw) ==
    LET signed == raw # <<>> /\ raw[1] \in {"-", "+"}
        body   == IF signed THEN Tail(raw) ELSE raw
        dots   == {k \in 1..Len(body) : body[k] = "."}
        dot    == IF dots = {} THEN Len(body) + 1 ELSE CHOOSE k \in dots : TRUE
        ip     == SubSeq(body, 1, dot - 1)
        fp     == SubSeq(body, dot + 1, Len(body))
        ok     == /\ Cardinality(dots) <= 1
                  /\ \A k \in 1..Len(ip) : IsDigit(ip[k])
                  /\ \A k \in 1..Len(fp) : IsDigit(fp[k])
                  /\ Len(ip) + Len(fp) > 0
        f2     == SubSeq(fp \o <<"0", "0">>, 1, 2)
        mag    == DigitsValue(ip) * 100 + DigitsValue(f2)
    IN  IF ok THEN [ok |-> TRUE, val |-> IF raw[1] = "-" THEN 0 - mag ELSE mag]
        ELSE [ok |-> FALSE, val |-> 0]

\* fmt.Sprintf("%.2f", reading) of a reading in hundredths.
FormatFloat2(h) ==
    LET mag == IF h < 0 THEN 0 - h ELSE h
    IN  (IF h < 0 THEN <<"-">> ELSE <<>>)
        \o NatToChars(mag \div 100)
        \o <<".", DigitChars[((mag % 100) \div 10) + 1], DigitChars[(mag % 10) + 1]>>

\* ------------------------------------------------------------- tables

upscVarFloat ==
    [f \in {"battery.charge", "battery.charge.low", "battery.voltage",
            "battery.voltage.high", "battery.voltage.low",
            "battery.voltage.nominal", "input.frequency",
            "input.frequency.nominal", "input.voltage", "input.voltage.fault",
            "input.voltage.nominal", "input.current", "output.voltage",
            "ups.beeper.status", "ups.delay.shutdown", "ups.delay.start",
            "ups.load", "ups.status", "ups.temperature"} |->
        CASE f = "battery.charge"          -> "upsc_battery_charge"
          [] f = "battery.charge.low"      -> "upsc_battery_charge_low"
          [] f = "battery.voltage"         -> "upsc_battery_voltage"
          [] f = "battery.voltage.high"    -> "upsc_battery_voltage_high"
          [] f = "battery.voltage.low"     -> "upsc_battery_voltage_low"
          [] f = "battery.voltage.nominal" -> "upsc_battery_voltage_nominal"
          [] f = "input.frequency"         -> "upsc_input_frequency"
          [] f = "input.frequency.nominal" -> "upsc_input_frequency_nominal"
          [] f = "input.voltage"           -> "upsc_input_voltage"
          [] f = "input.voltage.fault"     -> "upsc_input_voltage_fault"
          [] f = "input.voltage.nominal"   -> "upsc_input_voltage_nominal"
          [] f = "input.current"           -> "upsc_input_current"
          [] f = "output.voltage"          -> "upsc_output_voltage"
          [] f = "ups.beeper.status"       -> "upsc_ups_beeper_enabled"
          [] f = "ups.delay.shutdown"      -> "upsc_ups_delay_shutdown"
          [] f = "ups.delay.start"         -> "upsc_ups_delay_start"
          [] f = "ups.load"                -> "upsc_ups_load"
          [] f = "ups.status"              -> "upsc_ups_online"
          [] f = "ups.temperature"         -> "upsc_ups_temperature"]

\* Values in hundredths: 1, 0, 2, 1.5, 1, 0.5, 0.
sensorStringMapping ==
    (<<"e", "n", "a", "b", "l", "e", "d">> :> 100)
    @@ (<<"d", "i", "s", "a", "b", "l", "e", "d">> :> 0)
    @@ (<<"O", "L">> :> 200)
    @@ (<<"F", "S", "D", " ", "O", "L">> :> 150)
    @@ (<<"O", "B">> :> 100)
    @@ (<<"F", "S", "D", " ", "O", "B">> :> 50)
    @@ (<<"L", "B">> :> 0)

\* A metadata line "# KIND name text": the name is the word after the kind, the
\* text is the rest of the line.
MetaLine(kind, name, text) == [kind |-> kind, name |-> name, text |-> text]

\* sensorsType: the TYPE lines, in the order of the source.
sensorsType ==
    <<
      MetaLine("TYPE", "upsc_battery_charge", "gauge"),
      MetaLine("TYPE", "upsc_battery_charge_low", "gauge"),
      MetaLine("TYPE", "upsc_battery_voltage", "gauge"),
      MetaLine("TYPE", "upsc_battery_voltage_high", "gauge"),
      MetaLine("TYPE", "upsc_battery_voltage_low", "gauge"),
      MetaLine("TYPE", "upsc_battery_voltage_nominal", "gauge"),
      MetaLine("TYPE", "upsc_input_frequency", "gauge"),
      MetaLine("TYPE", "upsc_input_frequency_nominal", "gauge"),
      MetaLine("TYPE", "upsc_input_voltage", "gauge"),
      MetaLine("TYPE", "upsc_input_voltage_fault", "gauge"),
      MetaLine("TYPE", "upsc_input_voltage_nominal", "gauge"),
      MetaLine("TYPE", "upsc_input_current", "gauge"),
      MetaLine("TYPE", "upsc_output_voltage", "gauge"),
      MetaLine("TYPE", "upsc_ups_beeper_enabled", "gauge"),
      MetaLine("TYPE", "upsc_ups_delay_shutdown", "gauge"),
      MetaLine("TYPE", "upsc_ups_delay_start", "gauge"),
      MetaLine("TYPE", "upsc_ups_load", "gauge"),
      MetaLine("TYPE", "upsc_ups_online", "gauge"),
      MetaLine("TYPE", "upsc_ups_temperature", "gauge")
    >>

\* sensorsHelp: the HELP lines, in the order of the source; the first two carry
\* the word "gauge" before their text, as the source has it.
sensorsHelp ==
    <<
      MetaLine("HELP", "upsc_battery_charge",
               "gauge Battery charge (percent)"),
      MetaLine("HELP", "upsc_battery_charge_low",
               "gauge Low battery charge threshold (percent)"),
      MetaLine("HELP", "upsc_battery_voltage",
               "Battery voltage (V)"),
      MetaLine("HELP", "upsc_battery_voltage_high",
               "Battery voltage high (V)"),
      MetaLine("HELP", "upsc_battery_voltage_low",
               "Battery voltage low (V)"),
      MetaLine("HELP", "upsc_battery_voltage_nominal",
               "Battery voltage nominal / expected (V)"),
      MetaLine("HELP", "upsc_input_frequency",
               "Input line frequency (Hz)"),
      MetaLine("HELP", "upsc_input_frequency_nominal",
               "Input line frequency nominal / expected (Hz)"),
      MetaLine("HELP", "upsc_input_voltage",
               "Input voltage (V)"),
      MetaLine("HELP", "upsc_input_voltage_fault",
               "Input voltage fault (V)"),
      MetaLine("HELP", "upsc_input_voltage_nominal",
               "Input voltage nominal / expected (V)"),
      MetaLine("HELP", "upsc_input_current",
               "Input current (A)"),
      MetaLine("HELP", "upsc_output_voltage",
               "Output voltage (V)"),
      MetaLine("HELP", "upsc_ups_beeper_enabled",
               "Beeper is enabled (bool)"),
      MetaLine("HELP", "upsc_ups_delay_shutdown",
               "Wait number of seconds before shutdown (s)"),
      MetaLine("HELP", "upsc_ups_delay_start",
               "Start delay after number of seconds (s)"),
      MetaLine("HELP", "upsc_ups_load",
               "Load on UPS (percent)"),
      MetaLine("HELP", "upsc_ups_online",
               "UPS is online (bool)"),
      MetaLine("HELP", "upsc_ups_temperature",
               "UPS temperature (degrees C)")
    >>

\* A registration that hands over the TYPE lines only.
Registered_TypeOnly == sensorsType

\* init: the metadata lines handed to sensor.RegisterCollector for the sensor
\* type "upsc", once per process, whatever the number of instances.
Registered == sensorsType \o sensorsHelp

\* The number of registered lines of one kind for one metric name.
Occurrences(lines, kind, name) ==
    Cardinality({k \in DOMAIN lines :
                    lines[k].kind = kind /\ lines[k].name = name})

\* ------------------------------------------------------------- lines

Line(kind, dev, field, value) ==
    [kind |-> kind, dev |-> dev, field |-> field, value |-> value]

\* "BEGIN LIST VAR " + ups + "\n"
BeginToken(ups) == Line("BEGIN LIST VAR", ups, "", <<>>)

\* "END LIST VAR " + ups + "\n"
EndToken(ups) == Line("END LIST VAR", ups, "", <<>>)

\* VAR <dev> <field> "<value>"\n
VarLine(dev, field, value) == Line("VAR", dev, field, value)

\* ERR UNKNOWN-UPS\n
ErrLine == Line("ERR UNKNOWN-UPS", <<>>, "", <<>>)

\* No line read yet, or the incomplete data a failed ReadString returns.
NoLine == Line("", <<>>, "", <<>>)

\* The compiled pattern "VAR " + ups + " ([a-zA-Z.]*) \"(.*)\"".
Regexp(ups) == [ups |-> ups]

\* ------------------------------------------------------------- NewSensor

Nil == "nil"

\* ":3493"
DefaultPort == <<":", "3", "4", "9", "3">>

\* "localhost:3493"
LocalHostPort == <<"l", "o", "c", "a", "l", "h", "o", "s", "t">> \o DefaultPort

\* fmt.Sprintf("{ups=\"%s\",host=\"%s\"}", ups, hostParts[0])
LabelsUpsHost(ups, host) == <<"{ups=\"">> \o ups \o <<"\",host=\"">> \o host \o <<"\"}">>

\* fmt.Sprintf("{ups=\"%s\"}", conf[0])
LabelsUps(ups) == <<"{ups=\"">> \o ups \o <<"\"}">>

\* Depth of open parentheses after str, or -1 once one closes too early.
RECURSIVE ParenDepth(_, _)
ParenDepth(str, d) ==
    IF d < 0 \/ str = <<>> THEN d
    ELSE ParenDepth(Tail(str), CASE str[1] = "(" -> d + 1
                                 [] str[1] = ")" -> d - 1
                                 [] OTHER -> d)

\* Whether regexp.Compile accepts the pattern built from ups.  The fixed parts
\* of the pattern are balanced; of the metacharacters only '.' and parentheses
\* occur in the device names of this model, and '.' always compiles.
CompileOK(ups) == ParenDepth(ups, 0) = 0

\* SensorConf with the label's host taken from conf[1], port included.
SensorConf_PortInLabel(o) ==
    LET conf == Split(o, "@")
    IN  CASE Len(conf) = 2 ->
               LET hostParts == Split(conf[2], ":")
                   host == IF Len(hostParts) = 1 THEN conf[2] \o DefaultPort
                           ELSE conf[2]
               IN  [err |-> IF CompileOK(conf[1]) THEN Nil ELSE "regexp",
                    labels |-> LabelsUpsHost(conf[1], conf[2]),
                    host |-> host, ups |-> conf[1]]
          [] Len(conf) = 1 ->
               [err |-> IF CompileOK(conf[1]) THEN Nil ELSE "regexp",
                labels |-> LabelsUps(conf[1]),
                host |-> LocalHostPort, ups |-> conf[1]]
          [] OTHER ->
               [err |-> "uri", labels |-> <<>>, host |-> <<>>, ups |-> <<>>]

\* SensorConf with the default port appended whether or not a port is given.
SensorConf_AlwaysDefaultPort(o) ==
    LET conf == Split(o, "@")
    IN  CASE Len(conf) = 2 ->
               LET hostParts == Split(conf[2], ":")
               IN  [err |-> IF CompileOK(conf[1]) THEN Nil ELSE "regexp",
                    labels |-> LabelsUpsHost(conf[1], hostParts[1]),
                    host |-> hostParts[1] \o DefaultPort, ups |-> conf[1]]
          [] Len(conf) = 1 ->
               [err |-> IF CompileOK(conf[1]) THEN Nil ELSE "regexp",
                labels |-> LabelsUps(conf[1]),
                host |-> LocalHostPort, ups |-> conf[1]]
          [] OTHER ->
               [err |-> "uri", labels |-> <<>>, host |-> <<>>, ups |-> <<>>]

\* The characters of a device name that stand for a character of the line:
\* its parentheses only group.
NameChars(pat) == SelectSeq(pat, LAMBDA c : c \notin {"(", ")"})

\* Whether the device name, read as a pattern, matches the device of a line:
\* '.' matches any character, every other character matches itself.
MatchesName(pat, dev) ==
    LET lit == NameChars(pat)
    IN  /\ Len(lit) = Len(dev)
        /\ \A k \in DOMAIN lit : lit[k] = "." \/ lit[k] = dev[k]

\* What the groups of the device name capture, in the order they open.
NameGroups(pat, dev) ==
    LET opens == {p \in DOMAIN pat : pat[p] = "("}
        Close(p) == CHOOSE q \in p..Len(pat) :
                        /\ ParenDepth(SubSeq(pat, p, q), 0) = 0
                        /\ \A r \in p..(q - 1) : ParenDepth(SubSeq(pat, p, r), 0) # 0
        LitBefore(j) == Len(NameChars(SubSeq(pat, 1, j)))
        Nth(k) == CHOOSE p \in opens : Cardinality({q \in opens : q <= p}) = k
    IN  [k \in 1..Cardinality(opens) |->
            SubSeq(dev, LitBefore(Nth(k)) + 1, LitBefore(Close(Nth(k))))]

\* Re.FindStringSubmatch(line): the match, the groups of the device name, and
\* the pattern's own two groups; or nothing.  The device name stands in the
\* pattern as it is, so its '.' and its parentheses are pattern syntax.
FindStringSubmatch(re, line) ==
    IF line.kind = "VAR" /\ MatchesName(re.ups, line.dev)
    THEN <<line>> \o NameGroups(re.ups, line.dev) \o <<line.field, line.value>>
    ELSE <<>>

\* The switch over the '@'-separated parts and the pattern's compilation:
\* what NewSensor computes before it dials.
SensorConf(o) ==
    LET conf == Split(o, "@")
    IN  CASE Len(conf) = 2 ->
               LET hostParts == Split(conf[2], ":")
                   host == IF Len(hostParts) = 1 THEN conf[2] \o DefaultPort
                           ELSE conf[2]
               IN  [err |-> IF CompileOK(conf[1]) THEN Nil ELSE "regexp",
                    labels |-> LabelsUpsHost(conf[1], hostParts[1]),
                    host |-> host, ups |-> conf[1]]
          [] Len(conf) = 1 ->
               [err |-> IF CompileOK(conf[1]) THEN Nil ELSE "regexp",
                labels |-> LabelsUps(conf[1]),
                host |-> LocalHostPort, ups |-> conf[1]]
          [] OTHER ->
               [err |-> "uri", labels |-> <<>>, host |-> <<>>, ups |-> <<>>]

\* The Sensor value NewSensor returns.
Sensor(c) ==
    [Labels |-> c.labels, Host |-> c.host, Ups |-> c.ups, Re |-> Regexp(c.ups),
     BeginToken |-> BeginToken(c.ups), EndToken |-> EndToken(c.ups)]

NoSensor ==
    [Labels |-> <<>>, Host |-> <<>>, Ups |-> <<>>, Re |-> Regexp(<<>>),
     BeginToken |-> NoLine, EndToken |-> NoLine]

\* ------------------------------------------------------------- inputs

\* The configured instances a process can hold.
Insts == {1, 2}

\* The characters of the enumerated options strings.
OptsAlphabet == {"u", "h", "9", "@", ":", "(", ")"}

\* Every options string over OptsAlphabet of at most MaxOptsLen characters,
\* the empty string included.
OptsAll == UNION {[1..n -> OptsAlphabet] : n \in 0..MaxOptsLen}

\* Options strings handed to NewSensor: u, ., (), u@h, u@h:9, u@h@x, (
OptsSet ==
    { <<"u">>,
      <<".">>,
      <<"(", ")">>,
      <<"u", "@", "h">>,
      <<"u", "@", "h", ":", "9">>,
      <<"u", "@", "h", "@", "x">>,
      <<"(">> }

\* A device the instance does not ask for.
OtherUps == <<"o">>

\* Field names the daemon reports: two of the table, one not in it.
FieldsSent == {"battery.charge", "ups.status", "device.mfr"}

\* Raw values the daemon reports: 42, -1.5, OL, LB, 4x
RawValues ==
    { <<"4", "2">>, <<"-", "1", ".", "5">>, <<"O", "L">>, <<"L", "B">>, <<"4", "x">> }

\* The complete lines a daemon may deliver to an instance asking for ups.
DaemonLines(ups) ==
    {BeginToken(ups), BeginToken(OtherUps), EndToken(ups), EndToken(OtherUps), ErrLine}
    \cup {VarLine(ups, f, val) : f \in FieldsSent, val \in RawValues}
    \cup {VarLine(OtherUps, "battery.charge", <<"4", "2">>)}

\* ------------------------------------------------------------- state

VARIABLES
    configured,     \* the instances this process was started with
    IncidentCount,  \* the process-wide incident counter of package sensor
    pc,             \* where each instance's NewSensor or Scrape call stands
    opts,           \* NewSensor's argument
    s,              \* the Sensor NewSensor returned
    newErr,         \* the error NewSensor returned
    conn,           \* the connection of the current call: none, open, closed
    rx,             \* what ReadString finds on the connection: none, line, eof
    nread,          \* lines ReadString has returned in the current Scrape
    werr,           \* whether Fprintf's write failed (Scrape drops its result)
    out,            \* Scrape's named result out
    e,              \* Scrape's named result e
    err,            \* Scrape's local err
    res,            \* Scrape's local res
    v,              \* Scrape's local v
    incs,           \* calls of sensor.Incident by the current Scrape
    dials,          \* calls of net.DialTimeout by the current Scrape
    writes          \* request lines written by the current Scrape

vars == <<configured, IncidentCount, pc, opts, s, newErr, conn, rx, nread, werr,
          out, e, err, res, v, incs, dials, writes>>

sensorVars == <<configured, opts, s, newErr>>

localVars == <<out, e, err, res, v>>

Init ==
    /\ configured = {1}
    /\ IncidentCount = 0
    /\ pc = [i \in Insts |-> "unconfigured"]
    /\ opts = [i \in Insts |-> <<>>]
    /\ s = [i \in Insts |-> NoSensor]
    /\ newErr = [i \in Insts |-> Nil]
    /\ conn = [i \in Insts |-> "none"]
    /\ rx = [i \in Insts |-> "none"]
    /\ nread = [i \in Insts |-> 0]
    /\ werr = [i \in Insts |-> FALSE]
    /\ out = [i \in Insts |-> EmptyString]
    /\ e = [i \in Insts |-> Nil]
    /\ err = [i \in Insts |-> Nil]
    /\ res = [i \in Insts |-> NoLine]
    /\ v = [i \in Insts |-> <<>>]
    /\ incs = [i \in Insts |-> 0]
    /\ dials = [i \in Insts |-> 0]
    /\ writes = [i \in Insts |-> 0]

\* Init with two instances configured, as in: sensor_exporter upsc,,u upsc,,v@h
ConcInit ==
    /\ configured = {1, 2}
    /\ IncidentCount = 0
    /\ pc = [i \in Insts |-> "unconfigured"]
    /\ opts = [i \in Insts |-> <<>>]
    /\ s = [i \in Insts |-> NoSensor]
    /\ newErr = [i \in Insts |-> Nil]
    /\ conn = [i \in Insts |-> "none"]
    /\ rx = [i \in Insts |-> "none"]
    /\ nread = [i \in Insts |-> 0]
    /\ werr = [i \in Insts |-> FALSE]
    /\ out = [i \in Insts |-> EmptyString]
    /\ e = [i \in Insts |-> Nil]
    /\ err = [i \in Insts |-> Nil]
    /\ res = [i \in Insts |-> NoLine]
    /\ v = [i \in Insts |-> <<>>]
    /\ incs = [i \in Insts |-> 0]
    /\ dials = [i \in Insts |-> 0]
    /\ writes = [i \in Insts |-> 0]

\* Whether more than one instance runs: the inputs are then drawn from the
\* smaller sets below.
Concurrent == Cardinality(configured) > 1

\* The options of the two instances that run side by side: u and v@h.
ConcOpts == <<(<<"u">>), <<"v", "@", "h">>>>

\* The lines a daemon may deliver to instance i when two run side by side:
\* the answer to its own request, or the answer to the other's.
ConcUps(j) == SensorConf(ConcOpts[j]).ups

ConcLines(i) ==
    {BeginToken(ConcUps(j)) : j \in Insts} \cup {EndToken(ConcUps(j)) : j \in Insts}
    \cup {VarLine(ConcUps(j), "battery.charge", <<"4", "2">>) : j \in Insts}
    \cup {VarLine(ConcUps(i), "battery.charge", <<"4", "x">>)}

OptsOffered(i) == IF Concurrent THEN {ConcOpts[i]} ELSE OptsSet

LinesOffered(i) == IF Concurrent THEN ConcLines(i) ELSE DaemonLines(s[i].Ups)

LineBound == IF Concurrent THEN MaxConcLines ELSE MaxLines

\* sensor.Incident(): one more incident.
Incident(n) == n + 1

\* The Close is never run.
DeferredClose_Never(c) == c

\* defer conn.Close(), run when the function returns.
DeferredClose(c) == IF c = "open" THEN "closed" ELSE c

\* ------------------------------------------------------------- NewSensor

\* NewSensor returning an error when the probe's DialTimeout fails.
NewSensorCall_ProbeFails(i, o) ==
    /\ pc[i] = "unconfigured"
    /\ opts' = [opts EXCEPT ![i] = o]
    /\ conn' = conn
    /\ \E connected \in BOOLEAN :
          IF SensorConf(o).err # Nil \/ ~connected
          THEN /\ newErr' = [newErr EXCEPT ![i] =
                                IF SensorConf(o).err # Nil THEN SensorConf(o).err
                                ELSE "dial"]
               /\ pc' = [pc EXCEPT ![i] = "failed"]
          ELSE /\ pc' = [pc EXCEPT ![i] = "probed"]
               /\ newErr' = newErr
    /\ UNCHANGED <<configured, IncidentCount, s, rx, nread, werr, localVars,
                   incs, dials, writes>>

\* NewSensor(o) up to its return with an error, or up to the result of the
\* connectivity probe.
NewSensorCall(i, o) ==
    /\ pc[i] = "unconfigured"
    /\ opts' = [opts EXCEPT ![i] = o]
    /\ IF SensorConf(o).err # Nil
       THEN /\ newErr' = [newErr EXCEPT ![i] = SensorConf(o).err]
            /\ pc' = [pc EXCEPT ![i] = "failed"]
            /\ conn' = conn
       ELSE /\ \E connected \in BOOLEAN :
                 conn' = [conn EXCEPT ![i] = IF connected THEN "open" ELSE "none"]
            /\ pc' = [pc EXCEPT ![i] = "probed"]
            /\ newErr' = newErr
    /\ UNCHANGED <<configured, IncidentCount, s, rx, nread, werr, localVars,
                   incs, dials, writes>>

\* The Sensor is built and returned; the deferred Close runs.
NewSensorReturn(i) ==
    /\ pc[i] = "probed"
    /\ s' = [s EXCEPT ![i] = Sensor(SensorConf(opts[i]))]
    /\ newErr' = [newErr EXCEPT ![i] = Nil]
    /\ conn' = [conn EXCEPT ![i] = DeferredClose(conn[i])]
    /\ pc' = [pc EXCEPT ![i] = "idle"]
    /\ UNCHANGED <<configured, IncidentCount, opts, rx, nread, werr, localVars,
                   incs, dials, writes>>

\* ------------------------------------------------------------- Scrape

\* Return with the local err passed on to the caller: return text, err.
Return_PassesErr(i, text) ==
    /\ out' = [out EXCEPT ![i] = text]
    /\ e' = [e EXCEPT ![i] = err'[i]]
    /\ conn' = [conn EXCEPT ![i] = DeferredClose(conn[i])]
    /\ pc' = [pc EXCEPT ![i] = "done"]

\* return text, nil: the named results are set and the deferred Close runs.
Return(i, text) ==
    /\ out' = [out EXCEPT ![i] = text]
    /\ e' = [e EXCEPT ![i] = Nil]
    /\ conn' = [conn EXCEPT ![i] = DeferredClose(conn[i])]
    /\ pc' = [pc EXCEPT ![i] = "done"]

\* IncidentReturn with a bare return, which keeps what out holds.
IncidentReturn_KeepsOut(i) ==
    /\ IncidentCount' = Incident(IncidentCount)
    /\ incs' = [incs EXCEPT ![i] = @ + 1]
    /\ Return(i, out[i])

\* IncidentReturn with the incident counted a second time.
IncidentReturn_CountsTwice(i) ==
    /\ IncidentCount' = Incident(Incident(IncidentCount))
    /\ incs' = [incs EXCEPT ![i] = @ + 2]
    /\ Return(i, EmptyString)

\* sensor.Incident(); log.Printf(...); return "", nil
IncidentReturn(i) ==
    /\ IncidentCount' = Incident(IncidentCount)
    /\ incs' = [incs EXCEPT ![i] = @ + 1]
    /\ Return(i, EmptyString)

\* The scheduler's tick calls Scrape: fresh locals and results.
ScrapeCall(i) ==
    /\ pc[i] \in {"idle", "done"}
    /\ IncidentCount < MaxIncidents
    /\ pc' = [pc EXCEPT ![i] = "dial"]
    /\ conn' = [conn EXCEPT ![i] = "none"]
    /\ rx' = [rx EXCEPT ![i] = "none"]
    /\ nread' = [nread EXCEPT ![i] = 0]
    /\ werr' = [werr EXCEPT ![i] = FALSE]
    /\ out' = [out EXCEPT ![i] = EmptyString]
    /\ e' = [e EXCEPT ![i] = Nil]
    /\ err' = [err EXCEPT ![i] = Nil]
    /\ res' = [res EXCEPT ![i] = NoLine]
    /\ v' = [v EXCEPT ![i] = <<>>]
    /\ incs' = [incs EXCEPT ![i] = 0]
    /\ dials' = [dials EXCEPT ![i] = 0]
    /\ writes' = [writes EXCEPT ![i] = 0]
    /\ UNCHANGED <<sensorVars, IncidentCount>>

\* ScrapeDialFail that counts the incident and dials a second time before it returns.
ScrapeDialFail_Retries(i) ==
    /\ pc[i] = "dial"
    /\ \E why \in {"refused", "timeout"} : err' = [err EXCEPT ![i] = why]
    /\ dials' = [dials EXCEPT ![i] = @ + 1]
    /\ IF dials[i] = 0
       THEN /\ incs' = [incs EXCEPT ![i] = @ + 1]
            /\ IncidentCount' = Incident(IncidentCount)
            /\ UNCHANGED <<out, e, conn, pc>>
       ELSE IncidentReturn(i)
    /\ UNCHANGED <<sensorVars, rx, nread, werr, res, v, writes>>

\* net.DialTimeout fails: refused, or the timeout passes.
ScrapeDialFail(i) ==
    /\ pc[i] = "dial"
    /\ \E why \in {"refused", "timeout"} : err' = [err EXCEPT ![i] = why]
    /\ dials' = [dials EXCEPT ![i] = @ + 1]
    /\ IncidentReturn(i)
    /\ UNCHANGED <<sensorVars, rx, nread, werr, res, v, writes>>

\* ScrapeDialOK with the connection kept in one package-level variable that
\* every Sensor uses.
ScrapeDialOK_SharedConn(i) ==
    /\ pc[i] = "dial"
    /\ dials' = [dials EXCEPT ![i] = @ + 1]
    /\ conn' = [j \in Insts |-> "open"]
    /\ pc' = [pc EXCEPT ![i] = "write"]
    /\ UNCHANGED <<sensorVars, IncidentCount, rx, nread, werr, localVars, incs, writes>>

\* net.DialTimeout succeeds; the Close is deferred.
ScrapeDialOK(i) ==
    /\ pc[i] = "dial"
    /\ dials' = [dials EXCEPT ![i] = @ + 1]
    /\ conn' = [conn EXCEPT ![i] = "open"]
    /\ pc' = [pc EXCEPT ![i] = "write"]
    /\ UNCHANGED <<sensorVars, IncidentCount, rx, nread, werr, localVars, incs, writes>>

\* fmt.Fprintf(conn, "LIST VAR "+s.Ups+"\n"): the write succeeds or fails, and
\* its result is dropped; the reader is created.
ScrapeWrite(i) ==
    /\ pc[i] = "write"
    /\ \E ok \in BOOLEAN :
         /\ werr' = [werr EXCEPT ![i] = ~ok]
         /\ writes' = [writes EXCEPT ![i] = IF ok THEN @ + 1 ELSE @]
    /\ pc' = [pc EXCEPT ![i] = "first"]
    /\ UNCHANGED <<sensorVars, IncidentCount, conn, rx, nread, localVars, incs, dials>>

\* Reading without the table lookup: every value is parsed.
Reading_ParseOnly(raw) ==
    [ok |-> ParseFloat(raw).ok, val |-> ParseFloat(raw).val, parsed |-> TRUE]

\* The value of a known field: the table's code, else the parsed number.
Reading(raw) ==
    IF raw \in DOMAIN sensorStringMapping
    THEN [ok |-> TRUE, val |-> sensorStringMapping[raw], parsed |-> FALSE]
    ELSE [ok |-> ParseFloat(raw).ok, val |-> ParseFloat(raw).val, parsed |-> TRUE]

\* fmt.Sprintf("%s%s %.2f\n", value, s.Labels, reading)
MetricLine(name, labels, reading) ==
    <<name>> \o labels \o <<" ">> \o FormatFloat2(reading) \o <<"\n">>

\* The first ReadString fails: end of stream, reset, or an incomplete line.
ScrapeReadFirstErr(i) ==
    /\ pc[i] = "first"
    /\ rx[i] = "eof"
    /\ rx' = [rx EXCEPT ![i] = "none"]
    /\ err' = [err EXCEPT ![i] = "read"]
    /\ res' = [res EXCEPT ![i] = NoLine]
    /\ IncidentReturn(i)
    /\ UNCHANGED <<sensorVars, nread, werr, v, dials, writes>>

\* FirstLineOK that looks at the marker only, not at the device it names.
FirstLineOK_AnyDevice(sn, l) == l.kind = "BEGIN LIST VAR"

\* Whether the first line passes both tests: it is not "ERR UNKNOWN-UPS" (the
\* literal has no newline, so no line ReadString returns equals it) and it is
\* the begin token.
FirstLineOK(sn, l) == l # Line("ERR UNKNOWN-UPS (no newline)", <<>>, "", <<>>) /\ l = sn.BeginToken

\* The first ReadString returns a line.
ScrapeReadFirst(i) ==
    /\ pc[i] = "first"
    /\ rx[i] = "line"
    /\ rx' = [rx EXCEPT ![i] = "none"]
    /\ nread' = [nread EXCEPT ![i] = @ + 1]
    /\ \E l \in LinesOffered(i) :
         /\ res' = [res EXCEPT ![i] = l]
         /\ IF FirstLineOK(s[i], l)
            THEN /\ pc' = [pc EXCEPT ![i] = "loop"]
                 /\ UNCHANGED <<IncidentCount, incs, out, e, conn>>
            ELSE IncidentReturn(i)
    /\ UNCHANGED <<sensorVars, werr, err, v, dials, writes>>

\* ScrapeReadLoopErr with a bare return, which keeps the lines converted so far.
ScrapeReadLoopErr_KeepsOut(i) ==
    /\ pc[i] = "loop"
    /\ rx[i] = "eof"
    /\ rx' = [rx EXCEPT ![i] = "none"]
    /\ err' = [err EXCEPT ![i] = "read"]
    /\ res' = [res EXCEPT ![i] = NoLine]
    /\ IncidentReturn_KeepsOut(i)
    /\ UNCHANGED <<sensorVars, nread, werr, v, dials, writes>>

\* ReadString fails inside the loop.
ScrapeReadLoopErr(i) ==
    /\ pc[i] = "loop"
    /\ rx[i] = "eof"
    /\ rx' = [rx EXCEPT ![i] = "none"]
    /\ err' = [err EXCEPT ![i] = "read"]
    /\ res' = [res EXCEPT ![i] = NoLine]
    /\ IncidentReturn(i)
    /\ UNCHANGED <<sensorVars, nread, werr, v, dials, writes>>

\* ParseFailBreak that returns "" as the other failure paths do.
ParseFailBreak_ReturnsEmpty(i) ==
    /\ IncidentCount' = Incident(IncidentCount)
    /\ incs' = [incs EXCEPT ![i] = @ + 1]
    /\ err' = [err EXCEPT ![i] = "parse"]
    /\ Return(i, EmptyString)

\* ParseFloat failed: sensor.Incident(); log.Printf(...); break, and then the
\* return out, nil after the loop.
ParseFailBreak(i) ==
    /\ IncidentCount' = Incident(IncidentCount)
    /\ incs' = [incs EXCEPT ![i] = @ + 1]
    /\ err' = [err EXCEPT ![i] = "parse"]
    /\ Return(i, out[i])

\* What one line adds to out when its value resolves.
Emitted(sn, m) ==
    IF Len(m) = 3 /\ m[2] \in DOMAIN upscVarFloat
    THEN MetricLine(upscVarFloat[m[2]], sn.Labels, Reading(m[3]).val)
    ELSE EmptyString

\* The end test against a token without its newline, which no line equals.
IsEnd_NoNewline(sn, l) == l = Line("END LIST VAR (no newline)", sn.Ups, "", <<>>)

\* The loop's end test: res == s.EndToken.
IsEnd(sn, l) == l = sn.EndToken

\* LoopBody that parses the value before it looks the field up.
LoopBody_ParsesBeforeLookup(i, l) ==
    LET m == FindStringSubmatch(s[i].Re, l)
    IN  /\ res' = [res EXCEPT ![i] = l]
        /\ v' = [v EXCEPT ![i] = m]
        /\ IF Len(m) = 3 /\ ~Reading(m[3]).ok
           THEN ParseFailBreak(i)
           ELSE /\ IF IsEnd(s[i], l)
                   THEN Return(i, out[i] \o Emitted(s[i], m))
                   ELSE /\ out' = [out EXCEPT ![i] = @ \o Emitted(s[i], m)]
                        /\ UNCHANGED <<e, conn, pc>>
                /\ UNCHANGED <<IncidentCount, incs, err>>

\* One pass of the loop body on a line ReadString returned.
LoopBody(i, l) ==
    LET m == FindStringSubmatch(s[i].Re, l)
    IN  /\ res' = [res EXCEPT ![i] = l]
        /\ v' = [v EXCEPT ![i] = m]
        /\ IF Len(m) = 3 /\ m[2] \in DOMAIN upscVarFloat /\ ~Reading(m[3]).ok
           THEN ParseFailBreak(i)
           ELSE /\ IF IsEnd(s[i], l)
                   THEN Return(i, out[i] \o Emitted(s[i], m))
                   ELSE /\ out' = [out EXCEPT ![i] = @ \o Emitted(s[i], m)]
                        /\ UNCHANGED <<e, conn, pc>>
                /\ UNCHANGED <<IncidentCount, incs, err>>

\* ReadString returns a line inside the loop.
ScrapeReadLoop(i) ==
    /\ pc[i] = "loop"
    /\ rx[i] = "line"
    /\ rx' = [rx EXCEPT ![i] = "none"]
    /\ nread' = [nread EXCEPT ![i] = @ + 1]
    /\ \E l \in LinesOffered(i) : LoopBody(i, l)
    /\ UNCHANGED <<sensorVars, werr, dials, writes>>

\* ------------------------------------------------------------- the daemon

\* The daemon's next complete line arrives.
DaemonSend(i) ==
    /\ conn[i] = "open"
    /\ pc[i] \in {"write", "first", "loop"}
    /\ rx[i] = "none"
    /\ nread[i] < LineBound
    /\ rx' = [rx EXCEPT ![i] = "line"]
    /\ UNCHANGED <<sensorVars, IncidentCount, pc, conn, nread, werr, localVars,
                   incs, dials, writes>>

\* The daemon closes or resets the connection, or the stream ends inside a line.
DaemonClose(i) ==
    /\ conn[i] = "open"
    /\ pc[i] \in {"write", "first", "loop"}
    /\ rx[i] = "none"
    /\ rx' = [rx EXCEPT ![i] = "eof"]
    /\ UNCHANGED <<sensorVars, IncidentCount, pc, conn, nread, werr, localVars,
                   incs, dials, writes>>

\* ------------------------------------------------------------- specification

\* The steps the process itself takes for instance i.
ProgramStep(i) ==
    \/ NewSensorReturn(i)
    \/ ScrapeDialFail(i)
    \/ ScrapeDialOK(i)
    \/ ScrapeWrite(i)
    \/ ScrapeReadFirstErr(i)
    \/ ScrapeReadFirst(i)
    \/ ScrapeReadLoopErr(i)
    \/ ScrapeReadLoop(i)

Next ==
    \/ \E i \in configured : \E o \in OptsOffered(i) : NewSensorCall(i, o)
    \/ \E i \in configured : NewSensorReturn(i)
    \/ \E i \in configured : ScrapeCall(i)
    \/ \E i \in configured : ScrapeDialFail(i)
    \/ \E i \in configured : ScrapeDialOK(i)
    \/ \E i \in configured : ScrapeWrite(i)
    \/ \E i \in configured : ScrapeReadFirstErr(i)
    \/ \E i \in configured : ScrapeReadFirst(i)
    \/ \E i \in configured : ScrapeReadLoopErr(i)
    \/ \E i \in configured : ScrapeReadLoop(i)
    \/ \E i \in configured : DaemonSend(i)
    \/ \E i \in configured : DaemonClose(i)

Spec == Init /\ [][Next]_vars

\* Two instances, each scraped on its own timer.
ConcSpec == ConcInit /\ [][Next]_vars

\* Construction alone: NewSensor called with any options string.
ConfNext ==
    \/ \E i \in configured :
          pc[i] = "unconfigured" /\ \E o \in OptsAll : NewSensorCall(i, o)
    \/ \E i \in configured : NewSensorReturn(i)

ConfSpec == Init /\ [][ConfNext]_vars

\* A call that can take its next step takes it; the daemon owes nothing.
FairSpec == Spec /\ \A i \in Insts : WF_vars(ProgramStep(i))

\* ------------------------------------------------------------- outcomes

\* How a returned Scrape ended, read off its locals.
Returned(i) == pc[i] = "done"

ConnectFailed(i) == Returned(i) /\ err[i] \in {"refused", "timeout"}

ReadFailed(i) == Returned(i) /\ err[i] = "read"

\* The only line read was the first, and it was refused.
ProtocolFailed(i) == Returned(i) /\ err[i] = Nil /\ nread[i] = 1

ParseFailed(i) == Returned(i) /\ err[i] = "parse"

\* The begin token was accepted and the loop ended at the end token.
CleanEnd(i) == Returned(i) /\ err[i] = Nil /\ nread[i] >= 2

\* A step of instance i's Scrape in which ReadString returned a line.
ReadsLine(i) == pc[i] \in {"first", "loop"} /\ nread'[i] = nread[i] + 1

\* A line the instance's pattern matches as a VAR line of its device.
MatchedVar(sn, l) == Len(FindStringSubmatch(sn.Re, l)) = 3

\* A matched VAR line with a known field whose value is neither a key of the
\* string table nor a number.
BadValueLine(sn, l) ==
    /\ MatchedVar(sn, l)
    /\ l.field \in DOMAIN upscVarFloat
    /\ l.value \notin DOMAIN sensorStringMapping
    /\ ~ParseFloat(l.value).ok

RECURSIVE SumOver(_, _)
SumOver(S, f) ==
    IF S = {} THEN 0
    ELSE LET x == CHOOSE x \in S : TRUE IN f[x] + SumOver(S \ {x}, f)

\* ------------------------------------------------------------- claims

\* C1: whatever the daemon does (connection refused or timed out, read error
\* on the first line or inside the list, unexpected first line, unparseable
\* value, clean list), the error Scrape returns is nil.
C1_ScrapeReturnsNilError ==
    \A i \in Insts : Returned(i) => e[i] = Nil

\* C1 witness: a Scrape returned after a read error inside the list.
C1_Witness ==
    \E i \in Insts : ReadFailed(i) /\ nread[i] >= 2 /\ e[i] = Nil

\* C2 as stated: after any failure (an incident was counted) the returned text
\* is empty.
C2_EveryFailureReturnsEmpty ==
    \A i \in Insts : (Returned(i) /\ incs[i] > 0) => out[i] = EmptyString

\* C2 amended: after a connection failure, a read error or a refused first
\* line the returned text is empty; a value parse error is the exception, and
\* the step that meets it returns out as it stood.
C2_TransportAndProtocolFailuresReturnEmpty ==
    /\ [](\A i \in Insts :
            (ConnectFailed(i) \/ ReadFailed(i) \/ ProtocolFailed(i))
                => out[i] = EmptyString)
    /\ [][\A i \in Insts :
            (pc[i] = "loop" /\ ParseFailed(i)') => out'[i] = out[i]]_vars

\* C2 witness: a read error after a known line had been converted, and the
\* returned text is empty.
C2_Witness ==
    \E i \in Insts :
        /\ ReadFailed(i)
        /\ Len(v[i]) = 3
        /\ v[i][2] \in DOMAIN upscVarFloat
        /\ v[i][3] \in DOMAIN sensorStringMapping
        /\ out[i] = EmptyString

\* C3: a Scrape calls sensor.Incident exactly once on every failure path (a
\* connection timeout among them) and never on a list read up to its end
\* token, never more than once; IncidentCount moves only by those calls, one
\* per call, and never decreases.
C3_OneIncidentPerFailedScrape ==
    /\ [](\A i \in Insts :
            /\ incs[i] <= 1
            /\ Returned(i) => incs[i] = IF CleanEnd(i) THEN 0 ELSE 1)
    /\ [][/\ IncidentCount' >= IncidentCount
          /\ IncidentCount' = IncidentCount + SumOver(Insts,
                [i \in Insts |-> IF pc[i] \in {"dial", "write", "first", "loop"}
                                 THEN incs'[i] - incs[i] ELSE 0])]_vars

\* C3 witness: a Scrape whose connection attempt timed out, with its one
\* incident in the counter.
C3_Witness ==
    \E i \in Insts :
        Returned(i) /\ err[i] = "timeout" /\ incs[i] = 1 /\ IncidentCount = 1

\* C4 as stated: a Scrape that was called returns, whatever the daemon does.
C4_ScrapeAlwaysReturns ==
    \A i \in Insts : (pc[i] \in {"dial", "write", "first", "loop"}) ~> Returned(i)

\* C5: when the loop reads a line its pattern matches as a VAR line of its
\* device, with a known field whose value is neither in the string table nor
\* a number, Scrape returns in that step with a nil error, with one incident
\* counted, and with out exactly as the lines before had left it.
C5_ParseFailureKeepsPartialOutput ==
    [][\A i \in Insts :
         (pc[i] = "loop" /\ ReadsLine(i) /\ BadValueLine(s[i], res'[i]))
            => /\ Returned(i)'
               /\ out'[i] = out[i]
               /\ e'[i] = Nil
               /\ incs'[i] = incs[i] + 1
               /\ IncidentCount' = IncidentCount + 1]_vars

\* C5 witness: a Scrape returned on an unparseable value with the lines before
\* it in its result.
C5_Witness ==
    \E i \in Insts :
        /\ ParseFailed(i)
        /\ BadValueLine(s[i], res[i])
        /\ out[i] # EmptyString
        /\ incs[i] = 1

\* C6: a VAR line whose field is not a key of upscVarFloat, whatever its value,
\* leaves out, the results, the incident counts and the connection as they
\* were, and the loop goes on to the next line.
C6_UnknownFieldIgnored ==
    [][\A i \in Insts :
         (pc[i] = "loop" /\ ReadsLine(i) /\ res'[i].kind = "VAR"
              /\ res'[i].field \notin DOMAIN upscVarFloat)
            => /\ pc'[i] = "loop"
               /\ out'[i] = out[i]
               /\ e'[i] = e[i]
               /\ err'[i] = err[i]
               /\ incs'[i] = incs[i]
               /\ conn'[i] = conn[i]
               /\ IncidentCount' = IncidentCount]_vars

\* C6 witness: the loop goes on after an unknown field with an unparseable
\* value, read after a line that was converted.
C6_Witness ==
    \E i \in Insts :
        /\ pc[i] = "loop"
        /\ res[i].kind = "VAR"
        /\ res[i].dev = s[i].Ups
        /\ res[i].field \notin DOMAIN upscVarFloat
        /\ ~ParseFloat(res[i].value).ok
        /\ out[i] # EmptyString
        /\ incs[i] = 0

\* C7: when the begin token is followed at once by the end token of the same
\* device, Scrape returns in that step with empty output and a nil error, and
\* neither of the two reads counts an incident.
C7_EmptyListIsNoIncident ==
    /\ [](\A i \in Insts :
            (CleanEnd(i) /\ nread[i] = 2)
                => /\ res[i] = EndToken(s[i].Ups)
                   /\ out[i] = EmptyString
                   /\ e[i] = Nil
                   /\ incs[i] = 0)
    /\ [][\A i \in Insts :
            /\ (pc[i] = "first" /\ ReadsLine(i) /\ res'[i] = BeginToken(s[i].Ups))
                  => (pc'[i] = "loop" /\ IncidentCount' = IncidentCount)
            /\ (pc[i] = "loop" /\ nread[i] = 1 /\ ReadsLine(i)
                    /\ res'[i] = EndToken(s[i].Ups))
                  => (CleanEnd(i)' /\ IncidentCount' = IncidentCount)]_vars

\* C7 witness: a Scrape that returned after exactly the two tokens.
C7_Witness ==
    \E i \in Insts :
        /\ CleanEnd(i)
        /\ nread[i] = 2
        /\ res[i] = EndToken(s[i].Ups)
        /\ out[i] = EmptyString
        /\ IncidentCount = 0

\* C8: for a known field of a matched VAR line, a raw value that is a key of sensorStringMapping is
\* emitted as the table's code formatted with two decimals (OL as 2.00, LB as
\* 0.00, and so for every key) without a call of ParseFloat; a raw value that
\* is no key is parsed.
C8_StringTableBeforeParse ==
    /\ [](/\ \A raw \in DOMAIN sensorStringMapping :
               /\ Reading(raw).ok
               /\ Reading(raw).val = sensorStringMapping[raw]
               /\ ~Reading(raw).parsed
          /\ FormatFloat2(Reading(<<"O", "L">>).val) = <<"2", ".", "0", "0">>
          /\ FormatFloat2(Reading(<<"L", "B">>).val) = <<"0", ".", "0", "0">>
          /\ \A raw \in RawValues \ DOMAIN sensorStringMapping :
               Reading(raw).parsed /\ Reading(raw).ok = ParseFloat(raw).ok)
    /\ [][\A i \in Insts :
            (pc[i] = "loop" /\ ReadsLine(i) /\ MatchedVar(s[i], res'[i])
                 /\ res'[i].field \in DOMAIN upscVarFloat
                 /\ res'[i].value \in DOMAIN sensorStringMapping)
               => /\ out'[i] = out[i] \o <<upscVarFloat[res'[i].field]>>
                                \o s[i].Labels \o <<" ">>
                                \o FormatFloat2(sensorStringMapping[res'[i].value])
                                \o <<"\n">>
                  /\ incs'[i] = incs[i]
                  /\ pc'[i] = "loop"]_vars

\* C8 witness: ups.status "OL" was read and the output is its line with 2.00.
C8_Witness ==
    \E i \in Insts :
        /\ pc[i] = "loop"
        /\ res[i] = VarLine(s[i].Ups, "ups.status", <<"O", "L">>)
        /\ out[i] = <<"upsc_ups_online">> \o s[i].Labels
                        \o <<" ", "2", ".", "0", "0", "\n">>

\* C9: when the first line read is anything but the begin token of the
\* instance's device, Scrape returns in that step with empty output, a nil
\* error, one incident counted and the connection closed; no second line is
\* read.
C9_UnexpectedFirstLineFails ==
    /\ [](\A i \in Insts :
            ProtocolFailed(i) => (out[i] = EmptyString /\ incs[i] = 1))
    /\ [][\A i \in Insts :
            (pc[i] = "first" /\ ReadsLine(i) /\ res'[i] # BeginToken(s[i].Ups))
               => /\ ProtocolFailed(i)'
                  /\ out'[i] = EmptyString
                  /\ e'[i] = Nil
                  /\ incs'[i] = 1
                  /\ IncidentCount' = IncidentCount + 1
                  /\ conn'[i] = "closed"]_vars

\* C9 witness: the first line was the begin token of another device.
C9_Witness ==
    \E i \in Insts :
        /\ ProtocolFailed(i)
        /\ res[i] = BeginToken(OtherUps)
        /\ res[i] # BeginToken(s[i].Ups)
        /\ incs[i] = 1

\* C10: once NewSensor has returned (with a Sensor or with an error) or Scrape
\* has returned, the connection the call opened is not open.
C10_NoConnectionLeftOpen ==
    \A i \in Insts : pc[i] \in {"idle", "failed", "done"} => conn[i] # "open"

\* C10 witness: a Scrape that returned on a parse failure, its connection
\* closed.
C10_Witness ==
    \E i \in Insts : ParseFailed(i) /\ conn[i] = "closed"

\* C11: one Scrape calls net.DialTimeout once and writes at most one request
\* line; once an incident is counted the call has returned, and a returned
\* call dials, writes and reads nothing more.
C11_OneDialOneRequest ==
    /\ [](\A i \in Insts :
            /\ dials[i] <= 1
            /\ writes[i] <= 1
            /\ Returned(i) => dials[i] = 1
            /\ incs[i] >= 1 => Returned(i))
    /\ [][\A i \in Insts :
            (Returned(i) /\ Returned(i)')
               => (dials'[i] = dials[i] /\ writes'[i] = writes[i]
                     /\ nread'[i] = nread[i] /\ conn'[i] = conn[i])]_vars

\* C11 witness: a Scrape that failed on a read inside the list, after its one
\* dial and its one request.
C11_Witness ==
    \E i \in Insts :
        ReadFailed(i) /\ nread[i] >= 1 /\ dials[i] = 1 /\ writes[i] = 1

\* Everything instance i owns: its Sensor, its call's position, connection,
\* locals and results.
OwnState(i) ==
    <<pc[i], opts[i], s[i], newErr[i], conn[i], rx[i], nread[i], werr[i], out[i],
      e[i], err[i], res[i], v[i], incs[i], dials[i], writes[i]>>

RECURSIVE Repeat(_, _)
Repeat(str, n) == IF n = 0 THEN <<>> ELSE str \o Repeat(str, n - 1)

\* C12: with two instances scraped side by side, every step is one instance's
\* and leaves the other's Sensor, connection, locals and results as they were;
\* IncidentCount is the one thing both change, and each step moves it by the
\* stepping call's own incidents; a returned call's result is what its own
\* lines give: a nil error, one incident unless the list ended cleanly, empty
\* text after a transport or protocol failure, and only lines that carry its
\* own labels, one per converted line of its own device.
C12_InstancesDoNotInterfere ==
    /\ [][/\ \E i \in Insts : \A j \in Insts \ {i} : OwnState(j)' = OwnState(j)
          /\ IncidentCount' = IncidentCount + SumOver(Insts,
                [i \in Insts |-> IF pc[i] \in {"dial", "write", "first", "loop"}
                                 THEN incs'[i] - incs[i] ELSE 0])]_vars
    /\ [](\A i \in Insts :
            /\ Returned(i) =>
                 /\ e[i] = Nil
                 /\ incs[i] = IF CleanEnd(i) THEN 0 ELSE 1
                 /\ (ConnectFailed(i) \/ ReadFailed(i) \/ ProtocolFailed(i))
                       => out[i] = EmptyString
            /\ \E n \in 0..nread[i] :
                 out[i] = Repeat(<<"upsc_battery_charge">> \o s[i].Labels
                                   \o <<" ", "4", "2", ".", "0", "0", "\n">>, n))

\* C12 witness: both instances are inside their loops at once, each with a
\* line of its own in out, and the other's answer was the last line one read.
C12_Witness ==
    /\ pc[1] = "loop" /\ pc[2] = "loop"
    /\ out[1] # EmptyString /\ out[2] # EmptyString
    /\ out[1] # out[2]
    /\ res[1].dev = s[2].Ups

\* The metric names a result text carries: the first word of each of its lines.
NamesIn(text) ==
    {text[k] : k \in {j \in DOMAIN text : j = 1 \/ text[j - 1] = "\n"}}

\* The lines of a list with every repetition of an earlier line removed.
Dedup(lines) ==
    LET keep == {k \in DOMAIN lines : \A j \in 1..(k - 1) : lines[j] # lines[k]}
        Rank(k) == Cardinality({j \in keep : j <= k})
    IN  [r \in 1..Cardinality(keep) |->
            lines[CHOOSE k \in keep : Rank(k) = r]]

\* The preamble of the exposition: the registered metadata lines of the sensor
\* type of each of n instances, each line once.
Preamble == [n \in 0..Cardinality(Insts) |-> Dedup(Repeat(Registered, n))]

\* Every metric name of upscVarFloat has one TYPE and one HELP line among the
\* registered lines, and no registered line repeats a kind and name.
RegisteredOncePerName ==
    /\ \A f \in DOMAIN upscVarFloat :
          /\ Occurrences(Registered, "TYPE", upscVarFloat[f]) = 1
          /\ Occurrences(Registered, "HELP", upscVarFloat[f]) = 1
    /\ \A k \in DOMAIN Registered :
          Occurrences(Registered, Registered[k].kind, Registered[k].name) = 1

\* C13: every value of upscVarFloat has exactly one TYPE line and exactly one
\* HELP line among the registered metadata lines, no registered line repeats a
\* kind and name, and every metric name found in the output of any instance
\* has exactly one TYPE line and one HELP line in the preamble, however many
\* instances are configured.
C13_EachFamilyOneTypeOneHelp ==
    /\ RegisteredOncePerName
    /\ LET pre == Preamble[Cardinality(configured)]
       IN  \A i \in Insts : \A n \in NamesIn(out[i]) :
             /\ Occurrences(pre, "TYPE", n) = 1
             /\ Occurrences(pre, "HELP", n) = 1

\* Two instances report the same family, whose pair stands once in the
\* preamble.
C13_Witness ==
    /\ Cardinality(configured) = 2
    /\ "upsc_battery_charge" \in NamesIn(out[1]) \cap NamesIn(out[2])
    /\ s[1].Labels # s[2].Labels
    /\ Occurrences(Preamble[2], "TYPE", "upsc_battery_charge") = 1
    /\ Occurrences(Preamble[2], "HELP", "upsc_battery_charge") = 1

\* The number of times character c stands in str.
CountOf(str, c) == Cardinality({k \in DOMAIN str : str[k] = c})

\* The part of str before the first c; all of str when it holds no c.
Before(str, c) ==
    IF CountOf(str, c) = 0 THEN str
    ELSE SubSeq(str, 1, (CHOOSE k \in DOMAIN str :
                            str[k] = c /\ \A j \in 1..(k - 1) : str[j] # c) - 1)

\* The part of str after the first c; empty when it holds no c.
After(str, c) ==
    IF CountOf(str, c) = 0 THEN <<>>
    ELSE SubSeq(str, (CHOOSE k \in DOMAIN str :
                         str[k] = c /\ \A j \in 1..(k - 1) : str[j] # c) + 1,
                Len(str))

\* device@host:port with one '@', one ':' after it, and no part empty.
WellFormedFull(o) ==
    /\ CountOf(o, "@") = 1
    /\ CountOf(After(o, "@"), ":") = 1
    /\ Before(o, "@") # <<>>
    /\ Before(After(o, "@"), ":") # <<>>
    /\ After(After(o, "@"), ":") # <<>>

\* C14: the instance constructed from a well-formed device@host:port has the
\* labels {ups="device",host="host"}, in which the port does not stand, has
\* the device as its Ups, and has host:port as the address it connects to.
C14_LabelsWithoutPort ==
    \A i \in Insts :
        (pc[i] = "idle" /\ WellFormedFull(opts[i])) =>
            LET device == Before(opts[i], "@")
                host == Before(After(opts[i], "@"), ":")
                port == After(After(opts[i], "@"), ":")
            IN  /\ s[i].Labels = <<"{ups=\"">> \o device \o <<"\",host=\"">>
                                    \o host \o <<"\"}">>
                /\ s[i].Ups = device
                /\ s[i].Host = host \o <<":">> \o port

C14_Witness ==
    \E i \in Insts :
        /\ pc[i] = "idle"
        /\ opts[i] = <<"u", "@", "h", ":", "9">>
        /\ s[i].Labels = <<"{ups=\"", "u", "\",host=\"", "h", "\"}">>
        /\ s[i].Host = <<"h", ":", "9">>

\* C15: an instance constructed from a device name alone connects to
\* localhost:3493; from device@host with no ':' in the host part, to the host
\* with :3493 appended; from device@host with a ':' in the host part, to the
\* host part as given.
C15_DefaultHostAndPort ==
    \A i \in Insts :
        pc[i] = "idle" =>
            /\ CountOf(opts[i], "@") = 0 =>
                  /\ s[i].Host = <<"l", "o", "c", "a", "l", "h", "o", "s", "t",
                                   ":", "3", "4", "9", "3">>
                  /\ s[i].Ups = opts[i]
            /\ (CountOf(opts[i], "@") = 1 /\ CountOf(After(opts[i], "@"), ":") = 0) =>
                  s[i].Host = After(opts[i], "@") \o <<":", "3", "4", "9", "3">>
            /\ (CountOf(opts[i], "@") = 1 /\ CountOf(After(opts[i], "@"), ":") > 0) =>
                  s[i].Host = After(opts[i], "@")

C15_Witness ==
    \E i \in Insts :
        /\ pc[i] = "idle"
        /\ opts[i] = <<"u", "@", "h">>
        /\ s[i].Host = <<"h", ":", "3", "4", "9", "3">>

\* C16: NewSensor returns an error and no instance exactly when the options
\* hold more than one '@' or the pattern built from the device name does not
\* compile; otherwise it returns an instance whose fields are fixed by the
\* options alone, whether the probe connected or not.
C16_FailsOnlyOnOptions ==
    \A i \in Insts :
        LET bad == \/ CountOf(opts[i], "@") > 1
                   \/ ~CompileOK(Before(opts[i], "@"))
        IN  /\ pc[i] = "failed" => (bad /\ newErr[i] # Nil /\ s[i] = NoSensor)
            /\ pc[i] \in {"probed", "idle"} => (~bad /\ newErr[i] = Nil)
            /\ pc[i] = "idle" =>
                  /\ s[i] = Sensor(SensorConf(opts[i]))
                  /\ conn[i] \in {"none", "closed"}

\* An instance was returned although the probe did not connect.
C16_Witness ==
    \E i \in Insts :
        /\ pc[i] = "idle"
        /\ conn[i] = "none"
        /\ newErr[i] = Nil
        /\ s[i] = Sensor(SensorConf(opts[i]))
        /\ s[i] # NoSensor


\* C17: when ReadString fails, on the first line or in the loop after any
\* number of converted lines, that step returns the empty string and a nil
\* error and counts one incident; a call returned that way holds empty output
\* and exactly one incident.
C17_ReadErrorReturnsEmpty ==
    /\ [][\A i \in Insts :
            (pc[i] \in {"first", "loop"} /\ rx[i] = "eof" /\ rx'[i] # "eof") =>
                /\ pc'[i] = "done"
                /\ out'[i] = EmptyString
                /\ e'[i] = Nil
                /\ incs'[i] = incs[i] + 1
                /\ IncidentCount' = IncidentCount + 1]_vars
    /\ [](\A i \in Insts :
            ReadFailed(i) => (out[i] = EmptyString /\ incs[i] = 1))

\* The read failed after a line of a known field had been converted.
C17_Witness ==
    \E i \in Insts :
        /\ ReadFailed(i)
        /\ nread[i] >= 3
        /\ Len(v[i]) = 3
        /\ v[i][2] \in DOMAIN upscVarFloat
        /\ Reading(v[i][3]).ok
        /\ out[i] = EmptyString
        /\ incs[i] = 1

\* C18 as stated: a call whose request write failed returns the empty string
\* with exactly one incident counted, whatever its reads returned.
C18_WriteFailureIsIncident ==
    \A i \in Insts :
        (Returned(i) /\ werr[i]) => (out[i] = EmptyString /\ incs[i] = 1)

\* C19 as stated: in the list loop, a VAR line of the instance's own device
\* with a known field and a resolvable value appends exactly one line, the
\* mapped name, the instance's labels and the value; the end token of the
\* device returns what was gathered with no incident; every other line, a VAR
\* line of another device included, leaves the output as it was; a returned
\* call reads nothing more and its results stay.
C19_OneLinePerOwnKnownVar ==
    [][\A i \in Insts :
         /\ (pc[i] = "loop" /\ nread'[i] = nread[i] + 1) =>
               LET l == res'[i]
                   own == l.kind = "VAR" /\ l.dev = s[i].Ups
                   known == own /\ l.field \in DOMAIN upscVarFloat
               IN  CASE known /\ Reading(l.value).ok ->
                          /\ out'[i] = out[i] \o <<upscVarFloat[l.field]>>
                                         \o s[i].Labels \o <<" ">>
                                         \o FormatFloat2(Reading(l.value).val)
                                         \o <<"\n">>
                          /\ pc'[i] = "loop"
                          /\ incs'[i] = incs[i]
                     [] known /\ ~Reading(l.value).ok -> TRUE
                     [] l = EndToken(s[i].Ups) ->
                          /\ pc'[i] = "done"
                          /\ out'[i] = out[i]
                          /\ e'[i] = Nil
                          /\ incs'[i] = incs[i]
                     [] OTHER ->
                          /\ out'[i] = out[i]
                          /\ pc'[i] = "loop"
                          /\ incs'[i] = incs[i]
         /\ (pc[i] = "done" /\ pc'[i] = "done") =>
               /\ nread'[i] = nread[i]
               /\ out'[i] = out[i]
               /\ incs'[i] = incs[i]]_vars

====
